---- MODULE Spec2Model ----
(***************************************************************************)
(* Model of src/components/TicTacToe.tsx: the pure helpers                 *)
(* (calculateWinner, getRandomMove, getBestMove/minimax) and the TicTacToe *)
(* component as a state machine (React state, event handlers, the two      *)
(* effects and the pending bot timeout).                                   *)
(*                                                                         *)
(* Cells are indexed 0..8 as in the source.  history is a TLA+ sequence,   *)
(* so the source's history[k] is history[k + 1] here.                      *)
(*                                                                         *)
(* One event is one step: the handler's setState calls are batched, the    *)
(* component renders once, and the effects whose dependencies changed run  *)
(* (cleanup first) before the next event or timeout is taken.              *)
(*                                                                         *)
(* difficulty and editingNames are left out: handleDifficultyChange has no *)
(* caller, difficulty is never read, and editingNames only shows or hides  *)
(* the name inputs.                                                        *)
(*                                                                         *)
(* Spec is the component.  SpecBest is a game of a human against           *)
(* getBestMove, which the component never calls (makeMove picks at random).*)
(* SpecQuiet is the component with no input while a timeout is pending,    *)
(* under fairness of the timer.  SpecWinner calls calculateWinner on every *)
(* grid; SpecSearch calls getBestMove and minimax on grids of alternate    *)
(* moves.                                                                  *)
(***************************************************************************)
EXTENDS Integers, Sequences, FiniteSets, TLC

\* ------------------------------------------------------------------ bounds
\* A click or a random pick lands on one of the first MaxPick empty cells.
MaxPick == 2
\* A run makes no further update once the three tallies sum to MaxScore.
MaxScore == 2
\* getBestMove and minimax are called on grids of at most MaxEmpty empty cells.
MaxEmpty == 6

\* --------------------------------------------------------------- constants
\* JavaScript null (an empty cell, "no winner").
null == "null"
\* A move of null in minimax's result ({ score, move: null }).
NoMove == -1
\* JavaScript undefined (empty[0] of an empty array).
Undefined == -2
\* Infinity in minimax's initial best score; -Infinity is its negation.
Infinity == 2

Cells == 0..8
Marks == {"X", "O"}

emptyBoard == [i \in Cells |-> null]

lines ==
  << <<0, 1, 2>>, <<3, 4, 5>>, <<6, 7, 8>>,
     <<0, 3, 6>>, <<1, 4, 7>>, <<2, 5, 8>>,
     <<0, 4, 8>>, <<2, 4, 6>> >>

\* ---------------------------------------------------------- pure functions
\* The WinnerResult null.
NoResult == [winner |-> null, line |-> <<>>]

\* The test of the loop body on lines[i]: three equal, non-empty cells.
LineWins(squares, i) ==
  /\ squares[lines[i][1]] # null
  /\ squares[lines[i][1]] = squares[lines[i][2]]
  /\ squares[lines[i][1]] = squares[lines[i][3]]

\* return { winner: squares[a], line: lines[i] }
WinnerAt(squares, i) == [winner |-> squares[lines[i][1]], line |-> lines[i]]

\* calculateWinner with a lines table of the three rows only.
calculateWinnerRowsOnly(squares) ==
  IF LineWins(squares, 1) THEN WinnerAt(squares, 1)
  ELSE IF LineWins(squares, 2) THEN WinnerAt(squares, 2)
  ELSE IF LineWins(squares, 3) THEN WinnerAt(squares, 3)
  ELSE NoResult

\* calculateWinner with the two diagonals at the head of the lines table.
calculateWinnerDiagonalsFirst(squares) ==
  IF LineWins(squares, 7) THEN WinnerAt(squares, 7)
  ELSE IF LineWins(squares, 8) THEN WinnerAt(squares, 8)
  ELSE IF LineWins(squares, 1) THEN WinnerAt(squares, 1)
  ELSE IF LineWins(squares, 2) THEN WinnerAt(squares, 2)
  ELSE IF LineWins(squares, 3) THEN WinnerAt(squares, 3)
  ELSE IF LineWins(squares, 4) THEN WinnerAt(squares, 4)
  ELSE IF LineWins(squares, 5) THEN WinnerAt(squares, 5)
  ELSE IF LineWins(squares, 6) THEN WinnerAt(squares, 6)
  ELSE NoResult

\* The loop over lines, i = 0..7 in the source, written out in its order.
calculateWinner(squares) ==
  IF LineWins(squares, 1) THEN WinnerAt(squares, 1)
  ELSE IF LineWins(squares, 2) THEN WinnerAt(squares, 2)
  ELSE IF LineWins(squares, 3) THEN WinnerAt(squares, 3)
  ELSE IF LineWins(squares, 4) THEN WinnerAt(squares, 4)
  ELSE IF LineWins(squares, 5) THEN WinnerAt(squares, 5)
  ELSE IF LineWins(squares, 6) THEN WinnerAt(squares, 6)
  ELSE IF LineWins(squares, 7) THEN WinnerAt(squares, 7)
  ELSE IF LineWins(squares, 8) THEN WinnerAt(squares, 8)
  ELSE NoResult

\* squares.every(Boolean)
everyFilled(squares) == \A i \in Cells : squares[i] # null

\* squares.map(...).filter(...): the empty cells in ascending order.
RECURSIVE emptyFrom(_, _)
emptyFrom(squares, i) ==
  IF i > 8 THEN <<>>
  ELSE IF squares[i] = null THEN <<i>> \o emptyFrom(squares, i + 1)
       ELSE emptyFrom(squares, i + 1)

\* emptyCells without the filter: every index.
emptyCellsUnfiltered(squares) == <<0, 1, 2, 3, 4, 5, 6, 7, 8>>

emptyCells(squares) == emptyFrom(squares, 0)

\* The values Math.floor(Math.random() * n) is let to take here.
RandomIndexes(n) == {k \in 0..(n - 1) : k < MaxPick}

\* getRandomMove: the set of its possible results.
getRandomMove(squares) ==
  LET empty == emptyCells(squares) IN
  IF Len(empty) = 0 THEN {Undefined}
  ELSE {empty[k + 1] : k \in RandomIndexes(Len(empty))}

\* better with the two comparisons exchanged.
betterSwapped(isMax, score, bestScore) ==
  IF isMax THEN score < bestScore ELSE score > bestScore

\* better with >= and <=: a later cell of equal score replaces the best.
betterOrEqual(isMax, score, bestScore) ==
  IF isMax THEN score >= bestScore ELSE score <= bestScore

\* if (isMax) score > best.score, else score < best.score
better(isMax, score, bestScore) ==
  IF isMax THEN score > bestScore ELSE score < bestScore

\* minimax works on one buffer that it fills and clears in place; the buffer
\* is threaded through the result here (field board) so that what the caller
\* sees of it after the call is part of the model.
RECURSIVE minimax(_, _, _, _), minimaxLoop(_, _, _, _, _, _)
RECURSIVE minimaxLoopKeepsMark(_, _, _, _, _, _)
minimax(board, isMax, botMark, humanMark) ==
  LET result == calculateWinner(board) IN
  IF result.winner = botMark THEN [score |-> 1, move |-> NoMove, board |-> board]
  ELSE IF result.winner = humanMark
       THEN [score |-> -1, move |-> NoMove, board |-> board]
  ELSE IF everyFilled(board) THEN [score |-> 0, move |-> NoMove, board |-> board]
  ELSE minimaxLoop(board, isMax, botMark, humanMark, 0,
                   [score |-> IF isMax THEN -Infinity ELSE Infinity,
                    move |-> NoMove])

\* The loop of minimax without board[i] = null after the recursive call.
minimaxLoopKeepsMark(board, isMax, botMark, humanMark, i, best) ==
  IF i >= 9 THEN [score |-> best.score, move |-> best.move, board |-> board]
  ELSE IF board[i] = null
       THEN LET placed == [board EXCEPT ![i] = IF isMax THEN botMark ELSE humanMark]
                sub == minimax(placed, ~isMax, botMark, humanMark)
            IN minimaxLoopKeepsMark(sub.board, isMax, botMark, humanMark, i + 1,
                                    IF better(isMax, sub.score, best.score)
                                    THEN [score |-> sub.score, move |-> i]
                                    ELSE best)
       ELSE minimaxLoopKeepsMark(board, isMax, botMark, humanMark, i + 1, best)

\* The loop of minimax from cell i on, best the best result so far.
minimaxLoop(board, isMax, botMark, humanMark, i, best) ==
  IF i >= 9 THEN [score |-> best.score, move |-> best.move, board |-> board]
  ELSE IF board[i] = null
       THEN LET placed == [board EXCEPT ![i] = IF isMax THEN botMark ELSE humanMark]
                sub == minimax(placed, ~isMax, botMark, humanMark)
                cleared == [sub.board EXCEPT ![i] = null]
            IN minimaxLoop(cleared, isMax, botMark, humanMark, i + 1,
                           IF better(isMax, sub.score, best.score)
                           THEN [score |-> sub.score, move |-> i]
                           ELSE best)
       ELSE minimaxLoop(board, isMax, botMark, humanMark, i + 1, best)

\* getBestMove: the set of its possible results (the fallback is random).
getBestMove(squares, botMark, humanMark) ==
  LET m == minimax(squares, TRUE, botMark, humanMark).move IN
  IF m # NoMove THEN {m} ELSE getRandomMove(squares)

\* ------------------------------------------------------------------- state
VARIABLES
  history,    \* useState: the grids of the game so far
  step,       \* useState: index (0-based) of the viewed grid
  xIsNext,    \* useState: TRUE when X is to move
  mode,       \* useState: "human" | "bot"
  names,      \* useState: { X, O } display names
  scores,     \* useState: { X, O, Draw } tallies
  timeouts,   \* pending setTimeout(makeMove, 600) callbacks, each with the
              \* values its closure captured at the render that set it
  board,      \* a game against getBestMove: the grid
  humanNext,  \* a game against getBestMove: TRUE when the human is to move
  result      \* a call of a pure function on board: what it returned

vars ==
  <<history, step, xIsNext, mode, names, scores, timeouts, board, humanNext,
    result>>
sessionVars == <<history, step, xIsNext, mode, names, scores, timeouts>>
gameVars == <<board, humanNext, result>>

\* ------------------------------------------------ the initial React state
initHistory == <<emptyBoard>>
initNames == [X |-> "Player X", O |-> "Player O"]
initScores == [X |-> 0, O |-> 0, Draw |-> 0]
\* No pure function has been called on board.
NoCall == [call |-> "none"]

SessionInit ==
  /\ history = initHistory
  /\ step = 0
  /\ xIsNext = TRUE
  /\ mode = "human"
  /\ names = initNames
  /\ scores = initScores
  /\ timeouts = {}

\* nextSquares = squares.slice(); nextSquares[i] = mark
place(squares, i, mark) == [squares EXCEPT ![i] = mark]

\* The React state as one value.  The handlers and effects below are
\* functions from such a value to the next one; the actions apply them.
Cur ==
  [history |-> history, step |-> step, xIsNext |-> xIsNext, mode |-> mode,
   names |-> names, scores |-> scores, timeouts |-> timeouts]

\* ----------------------------------------------- what one render derives
\* The values a render of st computes before it binds its handlers and
\* effects; a closure made by that render sees these.  st is a state or the
\* part of one a closure keeps (history, step, xIsNext, mode).
Render(st) ==
  LET squares == st.history[st.step + 1]
      winner == calculateWinner(squares).winner
      latest == st.step = Len(st.history) - 1
  IN [history |-> st.history, step |-> st.step, xIsNext |-> st.xIsNext,
      mode |-> st.mode,
      squares |-> squares,
      winner |-> winner,
      isLatestStep |-> latest,
      isBotTurn |-> /\ st.mode = "bot"
                    /\ latest
                    /\ winner = null
                    /\ \E i \in Cells : squares[i] = null
                    /\ ~st.xIsNext]

\* buttonDisabled without the test of the computer's turn.
buttonDisabledNoTurnCheck(r, i) ==
  \/ r.squares[i] # null
  \/ r.winner # null

\* The disabled attribute of board button i in render r.
buttonDisabled(r, i) ==
  \/ r.squares[i] # null
  \/ r.winner # null
  \/ (r.mode = "bot" /\ ~r.xIsNext)

\* ---------------------------------------------------------------- effects
\* scoreEffect without its draw branch.
scoreEffectWinOnly(r, sc) ==
  IF r.winner # null THEN [sc EXCEPT ![r.winner] = sc[r.winner] + 1]
  ELSE sc

\* scoreEffect with the test of the full grid first.
scoreEffectDrawFirst(r, sc) ==
  IF everyFilled(r.squares) THEN [sc EXCEPT !.Draw = sc.Draw + 1]
  ELSE IF r.winner # null THEN [sc EXCEPT ![r.winner] = sc[r.winner] + 1]
  ELSE sc

\* The score tracking effect's body in render r, on the tallies sc.
scoreEffect(r, sc) ==
  IF r.winner # null THEN [sc EXCEPT ![r.winner] = sc[r.winner] + 1]
  ELSE IF everyFilled(r.squares) /\ r.winner = null
       THEN [sc EXCEPT !.Draw = sc.Draw + 1]
  ELSE sc

\* Its dependency array [winner, step]: does render r differ from render old?
scoreDepsChanged(old, r) ==
  \/ r.winner # old.winner
  \/ r.step # old.step

\* The bot move effect's dependency array [isBotTurn, squares].  squares is
\* compared by reference: fresh says that r's grid is an array made by this
\* update; two different elements of history never hold equal grids.
botDepsChanged(old, r, fresh) ==
  \/ r.isBotTurn # old.isBotTurn
  \/ fresh
  \/ r.squares # old.squares

\* The effect without a cleanup: the timeout stays.
cleanupKeepsTimeout(pending) == pending

\* The effect's cleanup, clearTimeout(timeout), on the timeouts then pending.
cleanup(pending) == {}

\* The effect without its setTimeout.
botEffectNoTimeout(r) == {}

\* The effect's body: setTimeout(makeMove, 600); makeMove closes over r.
botEffect(r) ==
  IF r.isBotTurn
  THEN {[history |-> r.history, step |-> r.step, xIsNext |-> r.xIsNext,
         mode |-> r.mode]}
  ELSE {}

\* One batch of setState calls on st, followed by the render and the effects
\* it causes (the setScores of the score effect causes one more render, in
\* which no dependency has changed).  pending: the timeouts not yet fired.
Update(st, nh, ns, nx, nm, nn, fresh, pending) ==
  LET old == Render(st)
      new == [history |-> nh, step |-> ns, xIsNext |-> nx, mode |-> nm]
      r == Render(new)
  IN [history |-> nh, step |-> ns, xIsNext |-> nx, mode |-> nm, names |-> nn,
      scores |-> IF scoreDepsChanged(old, r) THEN scoreEffect(r, st.scores)
                 ELSE st.scores,
      timeouts |-> IF botDepsChanged(old, r, fresh)
                   THEN cleanup(pending) \cup botEffect(r)
                   ELSE pending]

\* --------------------------------------------------------------- handlers
\* handleClick that also returns early when an old grid is viewed.
handleClickLatestOnly(r, i) ==
  IF r.squares[i] # null \/ r.winner # null \/ ~r.isLatestStep
  THEN [applied |-> FALSE, history |-> r.history, step |-> r.step,
        xIsNext |-> r.xIsNext]
  ELSE LET nextSquares == place(r.squares, i, IF r.xIsNext THEN "X" ELSE "O")
           nextHistory == Append(SubSeq(r.history, 1, r.step + 1), nextSquares)
       IN [applied |-> TRUE, history |-> nextHistory,
           step |-> Len(nextHistory) - 1, xIsNext |-> ~r.xIsNext]

\* handleClick that appends to the whole history (no slice(0, step + 1)).
handleClickAppendsToEnd(r, i) ==
  IF r.squares[i] # null \/ r.winner # null
  THEN [applied |-> FALSE, history |-> r.history, step |-> r.step,
        xIsNext |-> r.xIsNext]
  ELSE LET nextSquares == place(r.squares, i, IF r.xIsNext THEN "X" ELSE "O")
           nextHistory == Append(r.history, nextSquares)
       IN [applied |-> TRUE, history |-> nextHistory,
           step |-> Len(nextHistory) - 1, xIsNext |-> ~r.xIsNext]

\* handleClick as bound in render r: the values it sets, or applied = FALSE
\* when it returns early.
handleClick(r, i) ==
  IF r.squares[i] # null \/ r.winner # null
  THEN [applied |-> FALSE, history |-> r.history, step |-> r.step,
        xIsNext |-> r.xIsNext]
  ELSE LET nextSquares == place(r.squares, i, IF r.xIsNext THEN "X" ELSE "O")
           nextHistory == Append(SubSeq(r.history, 1, r.step + 1), nextSquares)
       IN [applied |-> TRUE, history |-> nextHistory,
           step |-> Len(nextHistory) - 1, xIsNext |-> ~r.xIsNext]

\* The state after handleClick of render r has run while the state is st.
clicked(st, r, i, pending) ==
  LET c == handleClick(r, i) IN
  IF c.applied
  THEN Update(st, c.history, c.step, c.xIsNext, st.mode, st.names, TRUE, pending)
  ELSE [st EXCEPT !.timeouts = pending]

\* A click on board button i: onClick={() => handleClick(i)} unless disabled.
boardButton(st, i) ==
  LET r == Render(st) IN
  IF buttonDisabled(r, i) THEN st ELSE clicked(st, r, i, st.timeouts)

\* The timeout t fires: makeMove of the render that set it, k its random index.
makeMove(st, t, k) ==
  LET r == Render(t)
      empty == emptyCells(r.squares)
      pending == st.timeouts \ {t}
  IN IF Len(empty) = 0 THEN [st EXCEPT !.timeouts = pending]
     ELSE clicked(st, r, empty[k + 1], pending)

\* handleReset that also sets the mode, as handleModeChange does.
handleResetSetsHumanMode(st) ==
  Update(st, initHistory, 0, TRUE, "human", st.names, TRUE, st.timeouts)

\* handleReset without setXIsNext(true).
handleResetKeepsTurn(st) ==
  Update(st, initHistory, 0, st.xIsNext, st.mode, st.names, TRUE, st.timeouts)

\* The Reset button.
handleReset(st) ==
  Update(st, initHistory, 0, TRUE, st.mode, st.names, TRUE, st.timeouts)

handleModeChange(st, newMode) ==
  Update(st, initHistory, 0, TRUE, newMode, st.names, TRUE, st.timeouts)

\* A click on a mode button; the button of the current mode is disabled.
modeButton(st, newMode) ==
  IF st.mode = newMode THEN st ELSE handleModeChange(st, newMode)

\* jumpTo without setXIsNext.
jumpToKeepsTurn(st, move) ==
  Update(st, st.history, move, st.xIsNext, st.mode, st.names, FALSE,
         st.timeouts)

\* jumpTo that also cuts history back to the viewed move.
jumpToTruncates(st, move) ==
  Update(st, SubSeq(st.history, 1, move + 1), move, move % 2 = 0, st.mode,
         st.names, FALSE, st.timeouts)

jumpTo(st, move) ==
  Update(st, st.history, move, move % 2 = 0, st.mode, st.names, FALSE,
         st.timeouts)

\* A click on a move history button; the button of the viewed move is disabled.
moveButton(st, move) ==
  IF move = st.step THEN st ELSE jumpTo(st, move)

handleNameChange(st, mark, value) ==
  Update(st, st.history, st.step, st.xIsNext, st.mode,
         [st.names EXCEPT ![mark] = value], FALSE, st.timeouts)

\* ---------------------------------------------------------------- actions
scoreTotal(sc) == sc.X + sc.O + sc.Draw

\* The state becomes st.
Becomes(st) ==
  /\ scoreTotal(scores) < MaxScore
  /\ history' = st.history
  /\ step' = st.step
  /\ xIsNext' = st.xIsNext
  /\ mode' = st.mode
  /\ names' = st.names
  /\ scores' = st.scores
  /\ timeouts' = st.timeouts
  /\ UNCHANGED gameVars

\* The cells a click is let to land on: any occupied cell and the first
\* MaxPick empty ones.
ClickCells ==
  LET sq == history[step + 1]
      empty == emptyCells(sq)
  IN {i \in Cells : sq[i] # null}
       \cup {empty[k] : k \in {j \in 1..Len(empty) : j <= MaxPick}}

\* The texts typed in a name input (shown while editingNames, which any run
\* can toggle and which nothing else reads).
NameInputs == {"Player X"}

Select(i) == Becomes(boardButton(Cur, i))

BotMove ==
  \E t \in timeouts :
    \E k \in RandomIndexes(Len(emptyCells(t.history[t.step + 1]))) :
      Becomes(makeMove(Cur, t, k))

Reset == Becomes(handleReset(Cur))

SetMode(newMode) == Becomes(modeButton(Cur, newMode))

JumpTo(move) == Becomes(moveButton(Cur, move))

RenameMark(mark, value) == Becomes(handleNameChange(Cur, mark, value))

Init ==
  /\ SessionInit
  /\ board = emptyBoard
  /\ humanNext = TRUE
  /\ result = NoCall

Next ==
  \/ \E i \in ClickCells : Select(i)
  \/ BotMove
  \/ Reset
  \/ \E m \in {"human", "bot"} : SetMode(m)
  \/ \E k \in 0..(Len(history) - 1) : JumpTo(k)
  \/ \E mark \in Marks, v \in NameInputs : RenameMark(mark, v)

Spec == Init /\ [][Next]_vars

\* ------------------------------------- a game against getBestMove (bot = O)
\* The human (X) moves first on the empty grid and may take any empty cell;
\* every O move is the cell getBestMove returns on the current grid.
GameOver(b) == calculateWinner(b).winner # null \/ everyFilled(b)

GameInit ==
  /\ SessionInit
  /\ board = emptyBoard
  /\ humanNext = TRUE
  /\ result = NoCall

HumanMove(c) ==
  /\ humanNext
  /\ ~GameOver(board)
  /\ board[c] = null
  /\ board' = place(board, c, "X")
  /\ humanNext' = FALSE
  /\ UNCHANGED <<sessionVars, result>>

BestMove ==
  /\ ~humanNext
  /\ ~GameOver(board)
  /\ \E m \in getBestMove(board, "O", "X") :
       /\ m \in Cells
       /\ board[m] = null
       /\ board' = place(board, m, "O")
  /\ humanNext' = TRUE
  /\ UNCHANGED <<sessionVars, result>>

GameNext ==
  \/ \E c \in Cells : HumanMove(c)
  \/ BestMove

SpecBest == GameInit /\ [][GameNext]_vars

\* ------------------------------- runs that leave a pending timeout to fire
\* What the user can do: the clicks and the typing of Next.
UserInput ==
  \/ \E i \in ClickCells : Select(i)
  \/ Reset
  \/ \E m \in {"human", "bot"} : SetMode(m)
  \/ \E k \in 0..(Len(history) - 1) : JumpTo(k)
  \/ \E mark \in Marks, v \in NameInputs : RenameMark(mark, v)

\* No input arrives during the 600 ms of a pending setTimeout(makeMove, 600).
QuietNext ==
  \/ timeouts = {} /\ UserInput
  \/ BotMove

\* A pending timeout leaves the timer's queue: the browser runs its callback
\* (here BotMove, the only step QuietNext has while one is pending).
TimerFires == timeouts # {} /\ timeouts' = {}

\* No timeout stays pending for ever.
SpecQuiet == Init /\ [][QuietNext]_vars /\ WF_timeouts(TimerFires)

\* ---------------------------------------------- calls of calculateWinner
\* Every array of nine cells, each null, "X" or "O".
AllGrids == [Cells -> Marks \cup {null}]

WinnerInit ==
  /\ SessionInit
  /\ board \in AllGrids
  /\ humanNext = TRUE
  /\ result = NoCall

\* calculateWinner(board) is called and returns.
CallCalculateWinner ==
  /\ result = NoCall
  /\ result' = [call |-> "calculateWinner", value |-> calculateWinner(board)]
  /\ UNCHANGED <<sessionVars, board, humanNext>>

WinnerNext == CallCalculateWinner

SpecWinner == WinnerInit /\ [][WinnerNext]_vars

\* ------------------------------------- calls of getBestMove and of minimax
\* The number of cells of squares that hold v.
cellsWith(squares, v) == Cardinality({i \in Cells : squares[i] = v})

\* The grids of alternate moves, X first, with at most MaxEmpty empty cells.
SearchGrids ==
  {g \in AllGrids :
     /\ cellsWith(g, "X") - cellsWith(g, "O") \in {0, 1}
     /\ cellsWith(g, null) <= MaxEmpty}

\* The bot (O) is to move on board when X has one mark more.
SearchInit ==
  /\ SessionInit
  /\ board \in SearchGrids
  /\ humanNext = (cellsWith(board, "X") = cellsWith(board, "O"))
  /\ result = NoCall

\* getBestMove(board, "O", "X") is called on an open grid with O to move and
\* returns; minimax works on the copy [...squares], squares is what it was.
CallGetBestMove ==
  /\ result = NoCall
  /\ ~humanNext
  /\ ~GameOver(board)
  /\ result' = [call |-> "getBestMove", value |-> getBestMove(board, "O", "X"),
                squares |-> board]
  /\ UNCHANGED <<sessionVars, board, humanNext>>

\* minimax(board, isMax) is called, by getBestMove or by itself, with the
\* mark to place next that of the side to move, and returns.
CallMinimax ==
  /\ result = NoCall
  /\ result' = [call |-> "minimax",
                value |-> minimax(board, ~humanNext, "O", "X")]
  /\ UNCHANGED <<sessionVars, board, humanNext>>

SearchNext ==
  \/ CallGetBestMove
  \/ CallMinimax

SpecSearch == SearchInit /\ [][SearchNext]_vars

\* ============================================================== properties
\* What the properties are stated with, written apart from the code above.
Triples ==
  { {0, 1, 2}, {3, 4, 5}, {6, 7, 8},
    {0, 3, 6}, {1, 4, 7}, {2, 5, 8},
    {0, 4, 8}, {2, 4, 6} }

HasTriple(g, m) == \E t \in Triples : \A c \in t : g[c] = m
Won(g) == HasTriple(g, "X") \/ HasTriple(g, "O")
Full(g) == \A c \in Cells : g[c] # null
Terminal(g) == Won(g) \/ Full(g)
Count(g, m) == Cardinality({c \in Cells : g[c] = m})

\* The viewed grid, History[view index].
Viewed == history[step + 1]

\* st2 has the History, view index and turn of st1.
SameGame(st1, st2) ==
  /\ st2.history = st1.history
  /\ st2.step = st1.step
  /\ st2.xIsNext = st1.xIsNext

\* g2 is g1 with the empty cell c filled by a mark.
Filled(g1, g2, c) ==
  /\ g1[c] = null
  /\ g2[c] \in Marks
  /\ \A d \in Cells \ {c} : g2[d] = g1[d]

\* ---- C1
\* The tallies of st2 are those of st1 with the outcome of grid g recorded
\* once: +1 for the winner of g, +1 draw for a full g without a triple,
\* nothing for a grid still open.
ScoredOnce(st1, st2, g) ==
  IF HasTriple(g, "X") THEN st2.scores = [st1.scores EXCEPT !.X = @ + 1]
  ELSE IF HasTriple(g, "O") THEN st2.scores = [st1.scores EXCEPT !.O = @ + 1]
  ELSE IF Full(g) THEN st2.scores = [st1.scores EXCEPT !.Draw = @ + 1]
  ELSE st2.scores = st1.scores

\* C1: every accepted Select, by a click or by the computer, changes the
\* tallies by exactly the outcome of the grid it produces: one increment of 1
\* of the winner's or the draw tally when that grid is terminal, nothing
\* otherwise.
C1_SelectScoresOnce ==
  /\ \A i \in Cells :
       LET r == boardButton(Cur, i) IN
       ~SameGame(Cur, r) => ScoredOnce(Cur, r, r.history[r.step + 1])
  /\ \A t \in timeouts :
       \A k \in 0..(Len(emptyCells(t.history[t.step + 1])) - 1) :
         LET r == makeMove(Cur, t, k) IN
         ~SameGame(Cur, r) => ScoredOnce(Cur, r, r.history[r.step + 1])

\* A drawn grid has just been produced and is the one thing scored so far.
C1_Witness ==
  /\ step = 9
  /\ Full(Viewed) /\ ~Won(Viewed)
  /\ scores = [X |-> 0, O |-> 0, Draw |-> 1]

\* ---- C2
\* C2: JumpTo(k) never changes the tallies, whatever grid History[k] is.
C2_JumpNeverScores ==
  \A k \in 0..(Len(history) - 1) : moveButton(Cur, k).scores = scores

\* ---- C3
\* C3: in a game where every O move is getBestMove's cell, no grid holds a
\* winning triple of the human's mark X.
C3_BestMoveNeverLoses == ~HasTriple(board, "X")

\* Such a game has been played to a full grid.
C3_Witness == Full(board) /\ ~Won(board)

\* ---- C4
\* C4: a click on a cell occupied in the viewed grid, or on any cell while
\* the viewed grid is won or full, changes nothing: History, view index, turn
\* and tallies stay.
C4_RejectedSelectIsNoOp ==
  \A i \in Cells :
    (Viewed[i] # null \/ Terminal(Viewed)) =>
      LET r == boardButton(Cur, i) IN
      SameGame(Cur, r) /\ r.scores = scores

\* A won grid with an empty cell is viewed (a click on it has handleClick's
\* winner test to pass), after a win was scored.
C4_Witness ==
  /\ Won(Viewed)
  /\ \E i \in Cells : Viewed[i] = null
  /\ scoreTotal(scores) = 1

\* ---- C5
\* C5 as claimed: a click while the view index is not the last index of
\* History leaves History, view index and turn unchanged.
C5_StaleSelectRejected ==
  \A i \in Cells :
    step # Len(history) - 1 => SameGame(Cur, boardButton(Cur, i))

\* C5 amended: a click while the view index is not the last index of History
\* is a no-op exactly when the cell is occupied in the viewed grid or the mode
\* is bot with O to move; otherwise it is accepted: History becomes its
\* first step + 1 grids and one more, the view index advances by one and the
\* turn flips.
C5_StaleSelect ==
  \A i \in Cells :
    step # Len(history) - 1 =>
      LET r == boardButton(Cur, i) IN
      IF Viewed[i] # null \/ (mode = "bot" /\ ~xIsNext)
      THEN SameGame(Cur, r)
      ELSE /\ Len(r.history) = step + 2
           /\ r.step = step + 1
           /\ r.xIsNext = ~xIsNext

\* An old grid is viewed and more than one grid lies beyond it.
C5_Witness ==
  /\ step + 2 < Len(history)
  /\ mode = "human"

\* ---- C6
\* Select(c) in the state st reached by JumpTo(k) cuts History back to k + 1
\* grids and appends History[k] with c filled.
TruncatesAndAppends(st, k, c) ==
  LET r == boardButton(st, c) IN
  /\ Len(r.history) = k + 2
  /\ r.step = k + 1
  /\ SubSeq(r.history, 1, k + 1) = SubSeq(history, 1, k + 1)
  /\ Filled(history[k + 1], r.history[k + 2], c)

\* C6 as claimed: for every k and every cell c empty in a non-terminal
\* History[k], JumpTo(k) followed by Select(c) truncates and appends.
C6_JumpThenSelect ==
  \A k \in 0..(Len(history) - 1) :
    LET st == moveButton(Cur, k) IN
    \A c \in Cells :
      (history[k + 1][c] = null /\ ~Terminal(history[k + 1])) =>
        TruncatesAndAppends(st, k, c)

\* C6 amended: the same, unless the mode is bot and k is odd (O, the
\* computer, is to move at History[k] and the board buttons are disabled).
C6_JumpThenAcceptedSelect ==
  \A k \in 0..(Len(history) - 1) :
    LET st == moveButton(Cur, k) IN
    \A c \in Cells :
      ( /\ history[k + 1][c] = null
        /\ ~Terminal(history[k + 1])
        /\ ~(mode = "bot" /\ k % 2 = 1) ) =>
        TruncatesAndAppends(st, k, c)

\* A History of at least four grids, viewed at its end (so that a jump back
\* has grids to discard).
C6_Witness ==
  /\ Len(history) >= 4
  /\ step = Len(history) - 1
  /\ ~Terminal(Viewed)

\* ---- C7
\* C7: History[n + 1] is History[n] with one empty cell filled, by X when n
\* is even and by O when n is odd; and in every grid of History the count of
\* X minus the count of O is 0 or 1.
C7_MarksAlternate ==
  /\ \A n \in 0..(Len(history) - 2) :
       \E c \in Cells :
         /\ Filled(history[n + 1], history[n + 2], c)
         /\ history[n + 2][c] = IF n % 2 = 0 THEN "X" ELSE "O"
  /\ \A n \in 1..Len(history) :
       Count(history[n], "X") - Count(history[n], "O") \in {0, 1}

\* In bot mode the human and the computer have made four moves.
C7_Witness ==
  /\ mode = "bot"
  /\ Len(history) >= 5
  /\ step = Len(history) - 1

\* ---- C8
\* C8: a pending computer move is always the one set by the render of the
\* current state, in which it is the computer's turn: its closure holds the
\* current History, view index, turn and mode.  A timeout set before a Reset,
\* SetMode or JumpTo is therefore never pending afterwards, and while History
\* is [emptyGrid] no computer move is pending at all.
C8_NoStaleBotMove ==
  /\ \A t \in timeouts :
       /\ t.history = history
       /\ t.step = step
       /\ t.xIsNext = xIsNext
       /\ t.mode = mode
       /\ mode = "bot" /\ ~xIsNext /\ step = Len(history) - 1
  /\ history = initHistory => timeouts = {}
  /\ \A k \in 0..(Len(history) - 1) :
       k # step => moveButton(Cur, k).timeouts \cap timeouts = {}
  /\ handleReset(Cur).timeouts = {}
  /\ \A m \in {"human", "bot"} : handleModeChange(Cur, m).timeouts = {}

\* In bot mode X has moved, the view was moved back to the start, and the
\* computer's answer is not pending any more.
C8_Witness ==
  /\ mode = "bot"
  /\ Len(history) = 2
  /\ step = 0
  /\ timeouts = {}

\* ---- C9
\* C9: Reset yields History = [emptyGrid], view index 0 and X to move, and
\* leaves names, mode and the three tallies as they were.
C9_ResetFrame ==
  LET r == handleReset(Cur) IN
  /\ r.history = <<[c \in Cells |-> null]>>
  /\ r.step = 0
  /\ r.xIsNext = TRUE
  /\ r.names = names
  /\ r.mode = mode
  /\ r.scores = scores

\* Reset is issued from a scored terminal grid, in bot mode, with a name
\* changed.
C9_Witness ==
  /\ Terminal(Viewed)
  /\ scoreTotal(scores) = 1
  /\ mode = "bot"
  /\ names # initNames

\* ---- C10
\* C10: in bot mode with O to move, no click on a board button changes
\* History, view index or turn.
C10_HumanNeverPlaysO ==
  (mode = "bot" /\ ~xIsNext) =>
    \A i \in Cells : SameGame(Cur, boardButton(Cur, i))

\* In bot mode O is to move at an old, open grid: no computer move is
\* pending, and handleClick, were it called, would place O.
C10_Witness ==
  /\ mode = "bot"
  /\ ~xIsNext
  /\ step < Len(history) - 1
  /\ timeouts = {}

\* ---- C11
\* The computer is to move: bot mode, the latest grid is viewed, it is open
\* and O is next.
BotTurn ==
  /\ mode = "bot"
  /\ step = Len(history) - 1
  /\ ~Terminal(Viewed)
  /\ ~xIsNext

\* The step appends one grid, the viewed one with O in an empty cell, views it
\* and gives the turn to X.
BotApplied ==
  /\ Len(history') = Len(history) + 1
  /\ SubSeq(history', 1, Len(history)) = history
  /\ \E c \in Cells :
       /\ Filled(Viewed, history'[Len(history')], c)
       /\ history'[Len(history')][c] = "O"
  /\ step' = step + 1
  /\ xIsNext'

\* A pending timeout can fire: its makeMove changes the state.
TimerEnabled ==
  timeouts # {} =>
    \E t \in timeouts :
      \E k \in RandomIndexes(Len(emptyCells(t.history[t.step + 1]))) :
        SubSeq(makeMove(Cur, t, k).history, 1, Len(history)) = history
          /\ Len(makeMove(Cur, t, k).history) = Len(history) + 1

\* C11: when no input arrives while the computer is to move, the next change
\* of state is the computer's Select (History grows by the viewed grid with O
\* in an empty cell, X is next), its timeout is pending and can fire, and
\* under fairness of the timer the Select does come.
C11_BotEventuallyMoves ==
  /\ [][BotTurn => BotApplied]_vars
  /\ [](BotTurn => timeouts # {})
  /\ []TimerEnabled
  /\ BotTurn ~> xIsNext

\* In bot mode the computer has answered X's first move.
C11_Witness ==
  /\ mode = "bot"
  /\ Len(history) = 3
  /\ step = 2
  /\ xIsNext
  /\ timeouts = {}

\* ---- C12
\* C12: every result of getRandomMove on a grid with an empty cell is an
\* empty cell of that grid; and whichever random index makeMove draws when its
\* timeout fires, the move is applied: History grows by the grid viewed at
\* that moment with O in a cell that was empty in it, no other cell changed.
C12_RandomMoveOnEmptyCell ==
  /\ Count(Viewed, null) > 0 =>
       \A m \in getRandomMove(Viewed) : m \in Cells /\ Viewed[m] = null
  /\ \A t \in timeouts :
       \A k \in 0..(Count(Viewed, null) - 1) :
         LET r == makeMove(Cur, t, k) IN
         /\ Len(r.history) = Len(history) + 1
         /\ SubSeq(r.history, 1, Len(history)) = history
         /\ r.step = step + 1
         /\ \E c \in Cells :
              /\ Filled(Viewed, r.history[r.step + 1], c)
              /\ r.history[r.step + 1][c] = "O"

\* A computer move is pending on a grid whose first cell is occupied.
C12_Witness ==
  /\ timeouts # {}
  /\ Viewed[0] # null
  /\ Len(history) >= 4

\* ---- C13
\* C13: History[0] is the empty grid, and every grid of History that has a
\* successor is open (no winning triple, not full) and differs from its
\* successor in exactly one cell, empty in it and occupied in the successor.
C13_HistoryChain ==
  /\ \A c \in Cells : history[1][c] = null
  /\ \A i \in 1..(Len(history) - 1) :
       /\ ~Terminal(history[i])
       /\ Cardinality({c \in Cells : history[i + 1][c] # history[i][c]}) = 1
       /\ \E c \in Cells : Filled(history[i], history[i + 1], c)

\* History ends in a won grid and an earlier grid is viewed.
C13_Witness ==
  /\ Len(history) >= 6
  /\ Won(history[Len(history)])
  /\ step < Len(history) - 1

\* ---- C14
\* The outcomes the program gives grid n of History when it is viewed: what
\* the render reports (winner, or a draw for a full grid without winner) and
\* which tallies the score effect raises.
Reported(n) ==
  LET r == Render([history |-> history, step |-> n - 1, xIsNext |-> xIsNext,
                   mode |-> mode])
      sc == scoreEffect(r, [X |-> 0, O |-> 0, Draw |-> 0])
  IN [win |-> IF r.winner # null THEN {r.winner} ELSE {},
      draw |-> r.winner = null /\ everyFilled(r.squares),
      scored |-> {m \in {"X", "O", "Draw"} : sc[m] > 0}]

\* C14: no grid of History holds a complete triple of both marks; each grid
\* is reported as at most one of a win of X, a win of O and a draw, and
\* scored accordingly; a full grid with a triple is reported and scored as
\* the win of the triple's mark only.
C14_OneOutcome ==
  \A n \in 1..Len(history) :
    LET g == history[n]
        o == Reported(n)
    IN /\ ~(HasTriple(g, "X") /\ HasTriple(g, "O"))
       /\ Cardinality(o.win) + (IF o.draw THEN 1 ELSE 0) <= 1
       /\ Cardinality(o.scored) <= 1
       /\ \A m \in Marks :
            (Full(g) /\ HasTriple(g, m)) =>
              o.win = {m} /\ ~o.draw /\ o.scored = {m}

\* The ninth move completed a triple: the viewed grid is full and won, and
\* it has been scored.
C14_Witness ==
  /\ Full(Viewed)
  /\ Won(Viewed)
  /\ scoreTotal(scores) = 1
  /\ scores.Draw = 0

\* ---- C15
\* C15: for every k with 0 <= k < |History|, jumpTo(k), and a click on move
\* button k, yield the view index k and X to move iff k is even, and leave
\* History, the mode and the names as they were.
C15_JumpToFrame ==
  \A k \in 0..(Len(history) - 1) :
    \A r \in {jumpTo(Cur, k), moveButton(Cur, k)} :
      /\ r.step = k
      /\ r.xIsNext = (k % 2 = 0)
      /\ r.history = history
      /\ r.mode = mode
      /\ r.names = names

\* After a jump back to move 1, with a name changed: O is to move and three
\* grids lie beyond the viewed one.
C15_Witness ==
  /\ step = 1
  /\ ~xIsNext
  /\ Len(history) >= 5
  /\ names # initNames
  /\ mode = "human"

\* ---- C16
\* The reference order of the triples: rows top to bottom, columns left to
\* right, the diagonal from cell 0, the diagonal from cell 2.
RefOrder ==
  [n \in 1..8 |->
     IF n <= 3 THEN <<3 * (n - 1), 3 * (n - 1) + 1, 3 * (n - 1) + 2>>
     ELSE IF n <= 6 THEN <<n - 4, n - 1, n + 2>>
     ELSE IF n = 7 THEN <<0, 4, 8>>
     ELSE <<2, 4, 6>>]

\* Triple n of the reference order is complete in g.
RefComplete(g, n) ==
  /\ g[RefOrder[n][1]] \in Marks
  /\ g[RefOrder[n][2]] = g[RefOrder[n][1]]
  /\ g[RefOrder[n][3]] = g[RefOrder[n][1]]

\* The reference evaluator: the mark and the cells of the first complete
\* triple, or no winner when no triple is complete.
RefEvaluate(g) ==
  IF \E n \in 1..8 : RefComplete(g, n)
  THEN LET first == CHOOSE n \in 1..8 :
                      RefComplete(g, n) /\ \A j \in 1..(n - 1) : ~RefComplete(g, j)
       IN [winner |-> g[RefOrder[first][1]], line |-> RefOrder[first]]
  ELSE [winner |-> null, line |-> <<>>]

\* C16: on every grid over {null, X, O}^9, what calculateWinner returns is
\* what the reference evaluator gives: the mark and the first complete triple
\* in the reference order, no winner exactly when no triple is complete.
C16_CalculateWinnerIsReference ==
  result.call = "calculateWinner" =>
    /\ result.value = RefEvaluate(board)
    /\ (result.value.winner = null) = ~Won(board)

\* calculateWinner has returned on a grid with a complete row and a complete
\* diagonal.
C16_Witness ==
  /\ result.call = "calculateWinner"
  /\ \E n \in 1..3 : RefComplete(board, n)
  /\ \E n \in 7..8 : RefComplete(board, n)

\* ---- C17
Max(S) == CHOOSE v \in S : \A w \in S : w <= v
Min(S) == CHOOSE v \in S : \A w \in S : v <= w

\* The value of grid g for O when both sides play optimally from it: +1 O
\* wins, -1 X wins, 0 draw.
RECURSIVE RefValue(_, _)
RefValue(g, oToMove) ==
  IF HasTriple(g, "O") THEN 1
  ELSE IF HasTriple(g, "X") THEN -1
  ELSE IF Full(g) THEN 0
  ELSE LET next == {[g EXCEPT ![c] = IF oToMove THEN "O" ELSE "X"] :
                      c \in {d \in Cells : g[d] = null}}
           values == {RefValue(h, ~oToMove) : h \in next}
       IN IF oToMove THEN Max(values) ELSE Min(values)

\* The lowest empty cell of g among those of the greatest value for O.
RefBestMove(g) ==
  LET value == [c \in {d \in Cells : g[d] = null} |->
                  RefValue([g EXCEPT ![c] = "O"], FALSE)]
      best == Max({value[c] : c \in DOMAIN value})
  IN Min({c \in DOMAIN value : value[c] = best})

\* C17: on an open grid with O to move, getBestMove returns one cell: the
\* lowest empty cell among those whose minimax value is the greatest for O.
C17_BestMoveIsFirstOptimal ==
  result.call = "getBestMove" =>
    /\ result.value = {RefBestMove(board)}
    /\ \A m \in result.value : m \in Cells /\ board[m] = null

\* getBestMove has returned on a grid of three marks whose first empty cell
\* is not its answer.
C17_Witness ==
  /\ result.call = "getBestMove"
  /\ Count(board, null) = 6
  /\ \E m \in result.value : \E c \in 0..(m - 1) : board[c] = null

\* ---- C18
\* C18: when getBestMove returns, the grid passed in is what it was before
\* the call; when minimax returns, on any grid and for either side to move,
\* its working buffer is what it was on entry.
C18_SearchRestoresBoard ==
  /\ result.call = "getBestMove" => result.squares = board
  /\ result.call = "minimax" => result.value.board = board

\* minimax has returned from a search that filled and cleared cells (the
\* grid is open, its value is known) with X to move.
C18_Witness ==
  /\ result.call = "minimax"
  /\ humanNext
  /\ Count(board, null) = 5
  /\ result.value.move \in Cells

\* ---- C19
\* C19: the view index is an index of History (0 <= step < |History|), X is
\* to move iff the view index is even, the viewed grid holds exactly step
\* marks, and History has at most 10 grids.
C19_ViewIndexInvariant ==
  /\ step \in 0..(Len(history) - 1)
  /\ xIsNext = (step % 2 = 0)
  /\ Count(Viewed, "X") + Count(Viewed, "O") = step
  /\ Len(history) <= 10

\* A History of ten grids (nine moves) is viewed at move 4, after a jump.
C19_Witness ==
  /\ Len(history) = 10
  /\ step = 4
  /\ xIsNext

====
